---------------------------- MODULE Spec2Model ----------------------------
(***************************************************************************)
(* Model of the household notes application (schiller.town).               *)
(*                                                                         *)
(* Part I  - the document record store: the Remix API routes (create,      *)
(*           update, rename, delete, archive, restore, read by slug) over  *)
(*           the id-keyed DocumentsServer storage operations.  Every route *)
(*           handler is a sequence of storage requests; handlers of        *)
(*           concurrent callers interleave between their storage requests. *)
(* Part II - the client's collaboration session: the module-level          *)
(*           singleton of collaboration.client.tsx and the DocPage         *)
(*           component that consumes it.                                   *)
(* Further - the slug-keyed DocumentsServer with its lazy migration of     *)
(*           legacy records, and the star chart with its exchange aging.   *)
(***************************************************************************)
EXTENDS Integers, Sequences, FiniteSets, TLC

(***************************************************************************)
(* Bounds of the model.                                                    *)
(***************************************************************************)
\* concurrent callers (route handlers that can be in flight together)
MaxHandlers == 2
\* documents ever created (fresh ids handed out)
MaxDocs == 2
\* largest reading of the wall clock
MaxTime == 2
\* requests issued in one run, from the storage the run starts with
MaxRequests == 2

(***************************************************************************)
(* HTTP statuses the routes answer with.                                   *)
(***************************************************************************)
StatusOk == 200
StatusBadRequest == 400
StatusNotFound == 404
StatusConflict == 409
StatusServerError == 500

(***************************************************************************)
(* Part I: state of the record store.                                      *)
(***************************************************************************)
VARIABLES
    storage,     \* DocumentsServer's party.storage: key -> Document
    now,         \* the wall clock Date.now() reads
    nextId,      \* number of ids generated so far
    issued,      \* number of requests issued so far
    req,         \* per caller: the route handler in flight
    reply,       \* the response returned in the latest step, with its request
    lastRename,  \* history: the last successful rename, until the next storage write
    lastCreate,  \* history: the record of the last create, until the next storage write
    updateLog    \* history: id and updatedAt of the updates written so far, in order

storeVars == <<storage, now, nextId, issued, req, reply, lastRename, lastCreate, updateLog>>

\* Part II's state, the client's collaboration session (described there)
VARIABLES
    ydoc,         \* module variable: handle of the Y.Doc, or Null
    provider,     \* module variable: handle of the YPartyKitProvider, or Null
    awareness,    \* module variable: the Awareness, named by the Y.Doc it wraps
    currentRoom,  \* module variable: the room of `provider`, or NoRoom
    docs,         \* Y.Doc objects: handle -> [destroyed]
    provs,        \* providers: handle -> [room, doc, destroyed, synced, late]
    trace,        \* history: what the latest call of the module did, in order
    mounted,      \* DocPage is on screen
    documentId,   \* DocPage: useLoaderData().documentId
    isClient,     \* DocPage: useState isClient
    isSynced,     \* DocPage: useState isSynced
    ydocState,    \* DocPage: useState ydoc
    effectDue,    \* DocPage: the [documentId] effect has still to run
    effectProvider, \* DocPage: the provider the latest effect's closure holds
    subs          \* providers on which a handleSync of DocPage is registered

clientVars ==
    <<ydoc, provider, awareness, currentRoom, docs, provs, trace,
      mounted, documentId, isClient, isSynced, ydocState, effectDue,
      effectProvider, subs>>

\* the state of the slug-keyed DocumentsServer with its lazy migration
VARIABLES
    slugStorage,  \* party.storage: slug -> Document, legacy records lack `id`
    call,         \* per caller: the onRequest invocation in flight
    result,       \* the response returned in the latest step, with its request
    genId,        \* number of ids generated so far
    calls,        \* number of requests received so far
    served,       \* history: slug -> the ids reads have answered since its last put or delete
    written       \* history: the slugs a storage-put or storage-delete has named

legacyVars == <<slugStorage, call, result, genId, calls, served, written>>

\* the state of the StarChartServer
VARIABLES
    charts,       \* ctx.storage: chart id -> StarChart
    clock,        \* the wall clock `new Date()` and Date.now() read
    starResult,   \* the response returned in the latest step, with its request
    starCalls,    \* number of requests received so far
    starReq       \* per caller: the route handler in flight between its get and its put

starVars == <<charts, clock, starResult, starCalls, starReq>>

\* the state of the presence server (GeoServer)
VARIABLES
    geoState,     \* this.state: [total, from, users]
    connections   \* the open connections: id -> connection.state, [from, name]

geoVars == <<geoState, connections>>

partyVars == <<legacyVars, starVars, geoVars>>

Handlers == 1..MaxHandlers

(***************************************************************************)
(* Slugs are strings; they are modelled as sequences of characters so that *)
(* the format check and the URL handling are computed on the characters.   *)
(***************************************************************************)
SlugA == <<"a">>
SlugB == <<"b">>
SlugDots == <<".", ".">>
SlugBad == <<"a", "/">>
SlugNone == <<>>

\* slugs a request body can carry (create's slug, rename's newSlug)
BodySlugs == {SlugA, SlugB, SlugDots, SlugBad, SlugNone}
\* slugs a route parameter can carry (params.slug is never empty)
ParamSlugs == {SlugA, SlugB}
\* slugs a read by slug is issued for
LoaderSlugs == ParamSlugs \cup {SlugDots}

\* the characters of [a-zA-Z0-9._-] that occur in the model
SlugRegexChars == {"a", "b", ".", "-", "_"}
Whitespace == {" "}

\* (variant) a test that accepts every non-empty slug
SlugRegexTestAny(s) == Len(s) >= 1

\* slugRegex.test(s) with slugRegex = /^[a-zA-Z0-9._-]+$/
SlugRegexTest(s) ==
    /\ Len(s) >= 1
    /\ \A i \in 1..Len(s) : s[i] \in SlugRegexChars

\* s.trim() === ""
TrimIsEmpty(s) == \A i \in 1..Len(s) : s[i] \in Whitespace

NoDoc == [id |-> 0]

Titles == {"T"}
NoTitle == ""

\* the JSON bodies of PUT requests: any subset of fields may be present
Payloads ==
    { [title |-> "U", content |-> "x"],
      [id |-> 9, slug |-> SlugB, archived |-> TRUE, createdAt |-> 0] }

(***************************************************************************)
(* DocumentsServer: the storage operations.                                *)
(***************************************************************************)
Keys(st) == DOMAIN st

Holders(st, slug) == {k \in Keys(st) : st[k].slug = slug}

Min(S) == CHOOSE x \in S : \A y \in S : x <= y

\* storage-get-by-slug: the first entry, in key order, whose slug matches
StorageGetBySlug(st, slug) ==
    IF Holders(st, slug) = {}
    THEN [status |-> StatusNotFound, error |-> "Not found", doc |-> NoDoc]
    ELSE [status |-> StatusOk, error |-> "", doc |-> st[Min(Holders(st, slug))]]

\* The path segment the server sees for `/storage-get-by-slug/${encodeURIComponent(slug)}`.
\* encodeURIComponent leaves letters, digits, ".", "-" and "_" as they are and
\* escapes every other character, which decodeURIComponent restores; the URL
\* parser of fetch() and of `new URL` removes the dot segments "." and "..",
\* so for these two slugs no slug reaches the storage-get-by-slug branch.
IsDotSegment(s) == s = <<".">> \/ s = <<".", ".">>

\* fetch(getStorageUrl(request, `/storage-get-by-slug/${encodeURIComponent(slug)}`))
FetchGetBySlug(st, slug) ==
    IF IsDotSegment(slug) \/ Len(slug) = 0
    THEN [status |-> StatusNotFound, error |-> "Not found", doc |-> NoDoc]
    ELSE StorageGetBySlug(st, slug)

\* (variant) a storage-put under a key of its own making
StoragePutElsewhere(st, value) ==
    [k \in Keys(st) \cup {value.id + MaxDocs} |->
        IF k = value.id + MaxDocs THEN value ELSE st[k]]

\* storage-put: party.storage.put(body.value.id, body.value)
StoragePut(st, value) ==
    [k \in Keys(st) \cup {value.id} |-> IF k = value.id THEN value ELSE st[k]]

\* storage-delete: party.storage.delete(id)
StorageDelete(st, id) == [k \in Keys(st) \ {id} |-> st[k]]

\* party.storage.list(): the entries in key order
RECURSIVE StorageList(_, _)
StorageList(st, keys) ==
    IF keys = {} THEN <<>>
    ELSE <<st[Min(keys)]>> \o StorageList(st, keys \ {Min(keys)})

\* docs.sort((a, b) => b.updatedAt - a.updatedAt): Array.prototype.sort is
\* stable, so records with equal updatedAt keep the order they were pushed in
RECURSIVE SortByUpdatedAt(_)
SortByUpdatedAt(docSeq) ==
    IF Len(docSeq) <= 1 THEN docSeq
    ELSE LET last == docSeq[Len(docSeq)]
             front == SortByUpdatedAt(SubSeq(docSeq, 1, Len(docSeq) - 1))
             ahead == Cardinality({i \in 1..Len(front) : front[i].updatedAt >= last.updatedAt})
         IN  SubSeq(front, 1, ahead) \o <<last>> \o SubSeq(front, ahead + 1, Len(front))

\* `if (showArchived ? doc.archived : !doc.archived) docs.push(doc)`
Listed(doc, showArchived) == IF showArchived THEN doc.archived ELSE ~doc.archived

\* (variant) a listing that returns the records in the order of the storage
getAllDocumentsUnsorted(st, showArchived) ==
    SelectSeq(StorageList(st, Keys(st)), LAMBDA doc : Listed(doc, showArchived))

\* DocumentsServer.getAllDocuments(showArchived)
getAllDocuments(st, showArchived) ==
    SortByUpdatedAt(
        SelectSeq(StorageList(st, Keys(st)), LAMBDA doc : Listed(doc, showArchived)))


(***************************************************************************)
(* The Document values the routes build.                                   *)
(***************************************************************************)

\* api.documents.tsx, POST: the new record; `body.title || "Untitled"`
NewDoc(id, slug, title, t) ==
    [id |-> id, slug |-> slug,
     title |-> IF title = NoTitle THEN "Untitled" ELSE title,
     content |-> "", createdAt |-> t, updatedAt |-> t, archived |-> FALSE]

\* (variant) PUT without the `slug: doc.slug` override: { ...doc, ...updates, id, updatedAt }
UpdatedDocPayloadSlug(doc, updates, t) ==
    [f \in DOMAIN doc \cup DOMAIN updates |->
        CASE f = "id" -> doc.id
          [] f = "updatedAt" -> t
          [] f \in DOMAIN updates -> updates[f]
          [] OTHER -> doc[f]]

\* (variant) PUT without the `id: doc.id` override: { ...doc, ...updates, slug, updatedAt }
UpdatedDocPayloadId(doc, updates, t) ==
    [f \in DOMAIN doc \cup DOMAIN updates |->
        CASE f = "slug" -> doc.slug
          [] f = "updatedAt" -> t
          [] f \in DOMAIN updates -> updates[f]
          [] OTHER -> doc[f]]

\* PUT: { ...doc, ...updates, id: doc.id, slug: doc.slug, updatedAt: Date.now() }
UpdatedDoc(doc, updates, t) ==
    [f \in DOMAIN doc \cup DOMAIN updates |->
        CASE f = "id" -> doc.id
          [] f = "slug" -> doc.slug
          [] f = "updatedAt" -> t
          [] f \in DOMAIN updates -> updates[f]
          [] OTHER -> doc[f]]

\* (variant) PATCH that builds the record anew under another id
RenamedDocRecreated(doc, newSlug, t) == NewDoc(doc.id + MaxDocs, newSlug, doc.title, t)

\* PATCH: { ...doc, slug: newSlug, updatedAt: Date.now() }
RenamedDoc(doc, newSlug, t) == [doc EXCEPT !.slug = newSlug, !.updatedAt = t]

\* (variant) archive / restore that flip the flag the record has
FlaggedDocToggle(doc, flag, t) == [doc EXCEPT !.archived = ~doc.archived, !.updatedAt = t]

\* archive / restore: { ...doc, archived: flag, updatedAt: Date.now() }
FlaggedDoc(doc, flag, t) == [doc EXCEPT !.archived = flag, !.updatedAt = t]

\* (variant) DELETE without the archived check
DeleteRefusedNever(doc) == FALSE

\* DELETE: `if (!doc.archived)` refuses the delete
DeleteRefused(doc) == ~doc.archived

(***************************************************************************)
(* Route handlers.  A handler in flight keeps its request (op, slug,       *)
(* newSlug), the record it read (doc) and the value it is about to write   *)
(* (out).  The step in which it returns leaves its request and response    *)
(* in `reply`; a step in which no handler returns leaves NoReply.          *)
(***************************************************************************)
NoResp == [status |-> 0, error |-> "", doc |-> NoDoc]

Idle ==
    [op |-> "idle", pc |-> "idle", slug |-> SlugNone, newSlug |-> SlugNone,
     doc |-> NoDoc, out |-> NoDoc]

NoReply ==
    [op |-> "none", slug |-> SlugNone, newSlug |-> SlugNone, doc |-> NoDoc,
     resp |-> NoResp]

Ok(doc) == [status |-> StatusOk, error |-> "", doc |-> doc]
Err(status, error) == [status |-> status, error |-> error, doc |-> NoDoc]

\* the request, the record the handler read, and the response it returns
Answer(op, slug, newSlug, doc, resp) ==
    [op |-> op, slug |-> slug, newSlug |-> newSlug, doc |-> doc, resp |-> resp]

Pending(op, pc, slug, newSlug, doc, out) ==
    [op |-> op, pc |-> pc, slug |-> slug, newSlug |-> newSlug,
     doc |-> doc, out |-> out]

\* a handler returns: its slot is free again
Return(h, answer) ==
    /\ req' = [req EXCEPT ![h] = Idle]
    /\ reply' = answer

\* a handler goes on to its next storage request
Proceed(h, pending) ==
    /\ req' = [req EXCEPT ![h] = pending]
    /\ reply' = NoReply

Go(h, x) == IF "resp" \in DOMAIN x THEN Return(h, x) ELSE Proceed(h, x)

\* a caller issues its next request once the previous one has been answered
CanIssue(h) ==
    /\ req[h].pc = "idle"
    /\ issued < MaxRequests

\* "Check if slug already exists": `checkResponse.ok`
SlugTaken(st, slug) == FetchGetBySlug(st, slug).status = StatusOk

\* the values Date.now() can return: the clock never runs backwards
ClockReads == {now} \cup (IF now < MaxTime THEN {now + 1} ELSE {})

\* any storage write ends the window in which lastRename is the latest write
NoRename == [from |-> SlugNone, to |-> SlugNone, id |-> 0]

(***************************************************************************)
(* GET /api/documents/:slug (loader) - getBySlug                           *)
(***************************************************************************)
Loader(h, slug) ==
    /\ CanIssue(h)
    /\ issued' = issued + 1
    /\ LET r == FetchGetBySlug(storage, slug) IN
       Go(h,
                 IF r.status # StatusOk
                 THEN Answer("get", slug, SlugNone, NoDoc,
                             Err(StatusNotFound, "Document not found"))
                 ELSE Answer("get", slug, SlugNone, r.doc, Ok(r.doc)))
    /\ UNCHANGED <<storage, now, nextId, lastRename, lastCreate, updateLog>>
    /\ UNCHANGED <<clientVars, partyVars>>

(***************************************************************************)
(* GET /api/documents (loader) - list                                      *)
(***************************************************************************)
\* `showArchived = url.searchParams.get("archived") === "true"`, one
\* storage-list request, and `json(documents)`
ListOp(showArchived) == IF showArchived THEN "list-archived" ELSE "list"

Listing(docSeq) == [status |-> StatusOk, error |-> "", doc |-> NoDoc, docs |-> docSeq]

LoaderList(h, showArchived) ==
    /\ CanIssue(h)
    /\ issued' = issued + 1
    /\ Go(h,
          Answer(ListOp(showArchived), SlugNone, SlugNone, NoDoc,
                 Listing(getAllDocuments(storage, showArchived))))
    /\ UNCHANGED <<storage, now, nextId, lastRename, lastCreate, updateLog>>
    /\ UNCHANGED <<clientVars, partyVars>>

(***************************************************************************)
(* POST /api/documents - create                                            *)
(***************************************************************************)
\* validation, the slug check, and the construction of the record
CreateCheck(h, slug, title) ==
    /\ CanIssue(h)
    /\ nextId < MaxDocs
    /\ issued' = issued + 1
    /\ IF Len(slug) = 0 \/ ~SlugRegexTest(slug)
       THEN /\ Go(h,
                  Answer("create", slug, SlugNone, NoDoc,
                         Err(StatusBadRequest, "Slug can only contain")))
            /\ UNCHANGED <<now, nextId>>
       ELSE IF SlugTaken(storage, slug)
       THEN /\ Go(h,
                  Answer("create", slug, SlugNone, NoDoc,
                         Err(StatusConflict, "A document with this slug already exists")))
            /\ UNCHANGED <<now, nextId>>
       ELSE \E t \in ClockReads :
            /\ now' = t
            /\ nextId' = nextId + 1
            /\ Go(h,
                  Pending("create", "put", slug, SlugNone, NoDoc,
                          NewDoc(nextId + 1, slug, title, t)))
    /\ UNCHANGED <<storage, lastRename, lastCreate, updateLog>>
    /\ UNCHANGED <<clientVars, partyVars>>

\* the storage-put of the new record, and the response
CreatePut(h) ==
    /\ req[h].op = "create" /\ req[h].pc = "put"
    /\ storage' = StoragePut(storage, req[h].out)
    /\ Go(h,
          Answer("create", req[h].slug, SlugNone, req[h].out, Ok(req[h].out)))
    /\ lastRename' = NoRename
    /\ lastCreate' = req[h].out
    /\ updateLog' = updateLog
    /\ UNCHANGED <<now, nextId, issued>>
    /\ UNCHANGED <<clientVars, partyVars>>


(***************************************************************************)
(* PUT /api/documents/:slug - update                                       *)
(***************************************************************************)
UpdateGet(h, slug, updates) ==
    /\ CanIssue(h)
    /\ issued' = issued + 1
    /\ LET r == FetchGetBySlug(storage, slug) IN
       IF r.status # StatusOk
       THEN /\ Go(h,
                  Answer("update", slug, SlugNone, NoDoc,
                         Err(StatusNotFound, "Document not found")))
            /\ now' = now
       ELSE \E t \in ClockReads :
            /\ now' = t
            /\ Go(h,
                  Pending("update", "put", slug, SlugNone, r.doc,
                          UpdatedDoc(r.doc, updates, t)))
    /\ UNCHANGED <<storage, nextId, lastRename, lastCreate, updateLog>>
    /\ UNCHANGED <<clientVars, partyVars>>

UpdatePut(h) ==
    /\ req[h].op = "update" /\ req[h].pc = "put"
    /\ storage' = StoragePut(storage, req[h].out)
    /\ Go(h,
          Answer("update", req[h].slug, SlugNone, req[h].doc, Ok(req[h].out)))
    /\ lastRename' = NoRename
    /\ lastCreate' = NoDoc
    /\ updateLog' = Append(updateLog, [id |-> req[h].out.id, updatedAt |-> req[h].out.updatedAt])
    /\ UNCHANGED <<now, nextId, issued>>
    /\ UNCHANGED <<clientVars, partyVars>>

(***************************************************************************)
(* PATCH /api/documents/:slug - rename                                     *)
(***************************************************************************)
\* (variant) PATCH without the same-slug branch
SameSlugNever(slug, newSlug) == FALSE

\* `if (newSlug === decodedSlug)`: "No change needed, just return existing doc"
SameSlug(slug, newSlug) == newSlug = slug

\* validation, the same-slug branch, and the check that newSlug is free
RenameCheck(h, slug, newSlug) ==
    /\ CanIssue(h)
    /\ issued' = issued + 1
    /\ Go(h,
          IF Len(newSlug) = 0 \/ TrimIsEmpty(newSlug)
          THEN Answer("rename", slug, newSlug, NoDoc,
                      Err(StatusBadRequest, "New slug is required"))
          ELSE IF ~SlugRegexTest(newSlug)
          THEN Answer("rename", slug, newSlug, NoDoc,
                      Err(StatusBadRequest, "Slug can only contain"))
          ELSE IF SameSlug(slug, newSlug)
          THEN LET r == FetchGetBySlug(storage, slug) IN
               \* `await response.json()` of the 404's text body throws
               IF r.status # StatusOk
               THEN Answer("rename", slug, newSlug, NoDoc,
                           Err(StatusServerError, "Unexpected Server Error"))
               ELSE Answer("rename", slug, newSlug, r.doc, Ok(r.doc))
          ELSE IF SlugTaken(storage, newSlug)
          THEN Answer("rename", slug, newSlug, NoDoc,
                      Err(StatusConflict, "A document with this slug already exists"))
          ELSE Pending("rename", "get", slug, newSlug, NoDoc, NoDoc))
    /\ UNCHANGED <<storage, now, nextId, lastRename, lastCreate, updateLog>>
    /\ UNCHANGED <<clientVars, partyVars>>

\* "Get old document", and the construction of the renamed record
RenameGet(h) ==
    /\ req[h].op = "rename" /\ req[h].pc = "get"
    /\ LET r == FetchGetBySlug(storage, req[h].slug) IN
       IF r.status # StatusOk
       THEN /\ Go(h,
                  Answer("rename", req[h].slug, req[h].newSlug, NoDoc,
                         Err(StatusNotFound, "Document not found")))
            /\ now' = now
       ELSE \E t \in ClockReads :
            /\ now' = t
            /\ Go(h,
                  Pending("rename", "put", req[h].slug, req[h].newSlug, r.doc,
                          RenamedDoc(r.doc, req[h].newSlug, t)))
    /\ UNCHANGED <<storage, nextId, issued, lastRename, lastCreate, updateLog>>
    /\ UNCHANGED <<clientVars, partyVars>>

\* the storage-put of the renamed record; its response is not inspected
RenamePut(h) ==
    /\ req[h].op = "rename" /\ req[h].pc = "put"
    /\ storage' = StoragePut(storage, req[h].out)
    /\ Go(h,
          Answer("rename", req[h].slug, req[h].newSlug, req[h].doc, Ok(req[h].out)))
    /\ lastRename' = [from |-> req[h].slug, to |-> req[h].newSlug, id |-> req[h].doc.id]
    /\ lastCreate' = NoDoc
    /\ updateLog' = updateLog
    /\ UNCHANGED <<now, nextId, issued>>
    /\ UNCHANGED <<clientVars, partyVars>>

(***************************************************************************)
(* DELETE /api/documents/:slug - permanent delete                          *)
(***************************************************************************)
DeleteGet(h, slug) ==
    /\ CanIssue(h)
    /\ issued' = issued + 1
    /\ LET r == FetchGetBySlug(storage, slug) IN
       Go(h,
          IF r.status # StatusOk
          THEN Answer("delete", slug, SlugNone, NoDoc,
                      Err(StatusNotFound, "Document not found"))
          ELSE IF DeleteRefused(r.doc)
          THEN Answer("delete", slug, SlugNone, r.doc,
                      Err(StatusBadRequest, "Document must be archived before it can be deleted"))
          ELSE Pending("delete", "del", slug, SlugNone, r.doc, NoDoc))
    /\ UNCHANGED <<storage, now, nextId, lastRename, lastCreate, updateLog>>
    /\ UNCHANGED <<clientVars, partyVars>>

\* "Delete from storage using id"
DeleteExec(h) ==
    /\ req[h].op = "delete" /\ req[h].pc = "del"
    /\ storage' = StorageDelete(storage, req[h].doc.id)
    /\ Go(h,
          Answer("delete", req[h].slug, SlugNone, req[h].doc, Ok(NoDoc)))
    /\ lastRename' = NoRename
    /\ lastCreate' = NoDoc
    /\ updateLog' = updateLog
    /\ UNCHANGED <<now, nextId, issued>>
    /\ UNCHANGED <<clientVars, partyVars>>

(***************************************************************************)
(* POST /api/documents/:slug/archive and .../restore                       *)
(***************************************************************************)
FlagGet(h, op, slug) ==
    /\ CanIssue(h)
    /\ issued' = issued + 1
    /\ LET r == FetchGetBySlug(storage, slug) IN
       IF r.status # StatusOk
       THEN /\ Go(h,
                  Answer(op, slug, SlugNone, NoDoc,
                         Err(StatusNotFound, "Document not found")))
            /\ now' = now
       ELSE \E t \in ClockReads :
            /\ now' = t
            /\ Go(h,
                  Pending(op, "put", slug, SlugNone, r.doc,
                          FlaggedDoc(r.doc, op = "archive", t)))
    /\ UNCHANGED <<storage, nextId, lastRename, lastCreate, updateLog>>
    /\ UNCHANGED <<clientVars, partyVars>>

FlagPut(h, op) ==
    /\ req[h].op = op /\ req[h].pc = "put"
    /\ storage' = StoragePut(storage, req[h].out)
    /\ Go(h,
          Answer(op, req[h].slug, SlugNone, req[h].doc, Ok(req[h].out)))
    /\ lastRename' = NoRename
    /\ lastCreate' = NoDoc
    /\ updateLog' = updateLog
    /\ UNCHANGED <<now, nextId, issued>>
    /\ UNCHANGED <<clientVars, partyVars>>

ArchiveGet(h, slug) == FlagGet(h, "archive", slug)
ArchivePut(h) == FlagPut(h, "archive")
RestoreGet(h, slug) == FlagGet(h, "restore", slug)
RestorePut(h) == FlagPut(h, "restore")


(***************************************************************************)
(* The same writes when the storage does not accept them: the response of  *)
(* storage-put or storage-delete is not ok, and nothing is stored.         *)
(***************************************************************************)
\* what a handler whose write failed leaves behind: no write, no history
Refused(h, answer) ==
    /\ Go(h, answer)
    /\ UNCHANGED <<storage, now, nextId, issued, lastRename, lastCreate, updateLog>>
    /\ UNCHANGED <<clientVars, partyVars>>

\* POST create: `if (!response.ok)` answers 500
CreatePutFails(h) ==
    /\ req[h].op = "create" /\ req[h].pc = "put"
    /\ Refused(h, Answer("create", req[h].slug, SlugNone, req[h].out,
                         Err(StatusServerError, "Failed to create document")))

\* PUT update: `if (!response.ok)` answers 500
UpdatePutFails(h) ==
    /\ req[h].op = "update" /\ req[h].pc = "put"
    /\ Refused(h, Answer("update", req[h].slug, SlugNone, req[h].doc,
                         Err(StatusServerError, "Failed to update document")))

\* PATCH rename: the response of the put is not looked at; json(updatedDoc)
RenamePutFails(h) ==
    /\ req[h].op = "rename" /\ req[h].pc = "put"
    /\ Refused(h, Answer("rename", req[h].slug, req[h].newSlug, req[h].doc,
                         Ok(req[h].out)))

\* DELETE: `if (!response.ok)` answers 500
DeleteExecFails(h) ==
    /\ req[h].op = "delete" /\ req[h].pc = "del"
    /\ Refused(h, Answer("delete", req[h].slug, SlugNone, req[h].doc,
                         Err(StatusServerError, "Failed to delete document")))

\* archive / restore: `if (!putResponse.ok)` answers 500
FlagPutFails(h, op) ==
    /\ req[h].op = op /\ req[h].pc = "put"
    /\ Refused(h, Answer(op, req[h].slug, SlugNone, req[h].doc,
                         Err(StatusServerError, "Failed to archive or restore document")))

ArchivePutFails(h) == FlagPutFails(h, "archive")
RestorePutFails(h) == FlagPutFails(h, "restore")

StoreFault(h) ==
    \/ CreatePutFails(h)
    \/ UpdatePutFails(h)
    \/ RenamePutFails(h)
    \/ DeleteExecFails(h)
    \/ ArchivePutFails(h)
    \/ RestorePutFails(h)

(***************************************************************************)
(* The record store's initial state and next-state relation.               *)
(***************************************************************************)
\* A run starts with the storage that earlier requests left: nothing, one
\* record (as created, or since archived), or two records.
SeedDoc(id, slug, archived) == [NewDoc(id, slug, NoTitle, 1) EXCEPT !.archived = archived]

Seeds ==
    { [k \in {} |-> NoDoc],
      [k \in {1} |-> SeedDoc(1, SlugA, FALSE)],
      [k \in {1} |-> SeedDoc(1, SlugA, TRUE)],
      [k \in {1, 2} |-> IF k = 1 THEN SeedDoc(1, SlugA, FALSE)
                                  ELSE SeedDoc(2, SlugB, TRUE)] }

StoreInit ==
    /\ storage \in Seeds
    /\ now = 1
    /\ nextId = Cardinality(DOMAIN storage)
    /\ issued = 0
    /\ req = [h \in Handlers |-> Idle]
    /\ reply = NoReply
    /\ lastRename = NoRename
    /\ lastCreate = NoDoc
    /\ updateLog = <<>>

StoreStep(h) ==
    \/ \E slug \in LoaderSlugs : Loader(h, slug)
    \/ \E showArchived \in BOOLEAN : LoaderList(h, showArchived)
    \/ \E slug \in BodySlugs, title \in Titles \cup {NoTitle} : CreateCheck(h, slug, title)
    \/ CreatePut(h)
    \/ \E slug \in ParamSlugs, updates \in Payloads : UpdateGet(h, slug, updates)
    \/ UpdatePut(h)
    \/ \E slug \in ParamSlugs, newSlug \in BodySlugs : RenameCheck(h, slug, newSlug)
    \/ RenameGet(h)
    \/ RenamePut(h)
    \/ \E slug \in ParamSlugs : DeleteGet(h, slug)
    \/ DeleteExec(h)
    \/ \E slug \in ParamSlugs : ArchiveGet(h, slug)
    \/ ArchivePut(h)
    \/ \E slug \in ParamSlugs : RestoreGet(h, slug)
    \/ RestorePut(h)

(***************************************************************************)
(* Part II: the client's collaboration session.                            *)
(*                                                                         *)
(* collaboration.client.tsx keeps one Y.Doc, one provider and the room     *)
(* they belong to in module-level variables.  Y.Doc and provider objects   *)
(* are modelled as numbered handles; `docs` and `provs` hold every object  *)
(* constructed so far, with what the client can observe of it.             *)
(***************************************************************************)
\* provider objects constructed in one run
MaxSessions == 3

Null == 0
NoRoom == "null"
DocRooms == {"doc-A", "doc-B"}
StarRoom == "everett-potty"

\* the module-level state and the objects, as one value the functions transform
Module ==
    [ydoc |-> ydoc, provider |-> provider, awareness |-> awareness,
     currentRoom |-> currentRoom, docs |-> docs, provs |-> provs, trace |-> trace]

Log(s, ev, handle) ==
    [s EXCEPT !.trace = Append(@, [ev |-> ev, h |-> handle, room |-> NoRoom])]

\* the history restarts at each getProvider call, with the provider it found
Called(s, room) ==
    [s EXCEPT !.trace = <<[ev |-> "getProvider", h |-> s.provider, room |-> room]>>]

\* (variant) a cleanup that drops the references and destroys nothing
cleanupForget(s) ==
    Log([s EXCEPT !.provider = Null, !.ydoc = Null, !.awareness = Null,
                  !.currentRoom = NoRoom],
        "currentRoom = null", Null)

\* (variant) a cleanup that destroys the Y.Doc before the provider
cleanupDocFirst(s) ==
    LET s1 == IF s.ydoc # Null
              THEN Log([s EXCEPT !.docs[s.ydoc].destroyed = TRUE, !.ydoc = Null],
                       "ydoc.destroy", s.ydoc)
              ELSE s
        s2 == IF s1.provider # Null
              THEN Log([s1 EXCEPT !.provs[s1.provider].destroyed = TRUE,
                                  !.provider = Null],
                       "provider.destroy", s1.provider)
              ELSE s1
    IN  Log([s2 EXCEPT !.awareness = Null, !.currentRoom = NoRoom],
            "currentRoom = null", Null)

\* cleanup(): provider.destroy(), ydoc.destroy(), awareness and currentRoom reset
cleanup(s) ==
    LET s1 == IF s.provider # Null
              THEN Log([s EXCEPT !.provs[s.provider].destroyed = TRUE,
                                 !.provider = Null],
                       "provider.destroy", s.provider)
              ELSE s
        s2 == IF s1.ydoc # Null
              THEN Log([s1 EXCEPT !.docs[s1.ydoc].destroyed = TRUE, !.ydoc = Null],
                       "ydoc.destroy", s1.ydoc)
              ELSE s1
    IN  Log([s2 EXCEPT !.awareness = Null, !.currentRoom = NoRoom],
            "currentRoom = null", Null)

\* getYDoc(), in the browser
getYDoc(s) ==
    IF s.ydoc = Null
    THEN LET d == Cardinality(DOMAIN s.docs) + 1 IN
         Log([s EXCEPT !.docs = [k \in DOMAIN s.docs \cup {d} |->
                                    IF k = d THEN [destroyed |-> FALSE] ELSE s.docs[k]],
                       !.ydoc = d,
                       !.awareness = d],
             "new Y.Doc", d)
    ELSE s

\* (variant) a getProvider that replaces the session of any room, its own too
getProviderAnew(s, room) ==
    LET s1 == IF s.currentRoom # NoRoom THEN cleanup(Called(s, room)) ELSE Called(s, room)
        s2 == getYDoc(s1)
        p == Cardinality(DOMAIN s2.provs) + 1
    IN  Log([s2 EXCEPT !.provs = [k \in DOMAIN s2.provs \cup {p} |->
                           IF k = p
                           THEN [room |-> room, doc |-> s2.ydoc,
                                 destroyed |-> FALSE, synced |-> FALSE,
                                 late |-> FALSE]
                           ELSE s2.provs[k]],
                      !.provider = p,
                      !.currentRoom = room],
            "new YPartyKitProvider", p)

\* getProvider(room), in the browser; the provider returned is .provider of the result
getProvider(s, room) ==
    LET s0 == Called(s, room)
        s1 == IF s0.currentRoom # NoRoom /\ s0.currentRoom # room
              THEN cleanup(s0) ELSE s0
    IN  IF s1.provider = Null
        THEN LET s2 == getYDoc(s1)
                 p == Cardinality(DOMAIN s2.provs) + 1
             IN  Log([s2 EXCEPT !.provs = [k \in DOMAIN s2.provs \cup {p} |->
                                    IF k = p
                                    THEN [room |-> room, doc |-> s2.ydoc,
                                          destroyed |-> FALSE, synced |-> FALSE,
                                          late |-> FALSE]
                                    ELSE s2.provs[k]],
                               !.provider = p,
                               !.currentRoom = room],
                     "new YPartyKitProvider", p)
        ELSE s1

SetModule(s) ==
    /\ ydoc' = s.ydoc
    /\ provider' = s.provider
    /\ awareness' = s.awareness
    /\ currentRoom' = s.currentRoom
    /\ docs' = s.docs
    /\ provs' = s.provs
    /\ trace' = s.trace

\* a getProvider(room) call that has to construct a provider
Constructs(room) == provider = Null \/ (currentRoom # NoRoom /\ currentRoom # room)
CanCall(room) == Constructs(room) => Cardinality(DOMAIN provs) < MaxSessions

(***************************************************************************)
(* DocPage (docs.$slug.tsx): the page of one document.  React renders the  *)
(* component with the state below, and runs the [documentId] effect after  *)
(* the render in which documentId changed.                                 *)
(***************************************************************************)
\* (variant) an effect that returns no cleanup function
UnsubscribeNever(subscribed, p) == subscribed

\* the effect's cleanup function: provider.off("synced", handleSync)
Unsubscribe(subscribed, p) == subscribed \ {p}

\* the route is entered: a new component instance, useState initial values
Mount(room) ==
    /\ ~mounted
    /\ mounted' = TRUE
    /\ documentId' = room
    /\ isClient' = FALSE
    /\ isSynced' = FALSE
    /\ ydocState' = Null
    /\ effectDue' = TRUE
    /\ effectProvider' = Null
    /\ UNCHANGED <<ydoc, provider, awareness, currentRoom, docs, provs, trace, subs>>
    /\ UNCHANGED <<storeVars, partyVars>>

\* client-side navigation to another document: the instance is reused, and
\* renders with the new loader data and the state it had
Navigate(room) ==
    /\ mounted /\ ~effectDue
    /\ room # documentId
    /\ documentId' = room
    /\ effectDue' = TRUE
    /\ UNCHANGED <<ydoc, provider, awareness, currentRoom, docs, provs, trace,
                   mounted, isClient, isSynced, ydocState, effectProvider, subs>>
    /\ UNCHANGED <<storeVars, partyVars>>

\* (variant) an effect that does not reset isSynced
ResetSyncedNever(flag) == flag

\* setIsSynced(false), "Reset sync state when document changes"
ResetSynced(flag) == FALSE

\* setYdoc(null)
ResetYdoc(handle) == Null

\* (variant) an effect that does not look at provider.synced
ProviderIsSyncedNever(s, p) == FALSE

\* `if (provider.synced)`, "Check if already synced"
ProviderIsSynced(s, p) == s.provs[p].synced

\* (variant) the earlier ordering of the effect: `const doc = getYDoc()`
\* before `getProvider(documentId)`
EffectDocEarlier(s, s2) == IF s.ydoc # Null THEN s.ydoc ELSE s2.ydoc

\* `const provider = getProvider(documentId); const doc = getYDoc();`: the
\* document the effect holds, s the module before the two calls, s2 after
EffectDoc(s, s2) == s2.ydoc

\* useEffect(..., [documentId]): the previous run's cleanup, then the body
RunEffect ==
    /\ mounted /\ effectDue
    /\ CanCall(documentId)
    /\ LET s1 == getProvider(Module, documentId)
           p == s1.provider
           s2 == getYDoc(s1)
           doc == EffectDoc(Module, s2)
           cleaned == Unsubscribe(subs, effectProvider)
       IN  /\ SetModule(s2)
           /\ isClient' = TRUE
           /\ IF doc # Null /\ p # Null
              THEN /\ ydocState' = doc
                   /\ isSynced' = IF ProviderIsSynced(s2, p) THEN TRUE
                                   ELSE ResetSynced(isSynced)
                   /\ subs' = IF ProviderIsSynced(s2, p) THEN cleaned
                               ELSE cleaned \cup {p}
                   /\ effectProvider' = p
              ELSE /\ ydocState' = ResetYdoc(ydocState)
                   /\ isSynced' = ResetSynced(isSynced)
                   /\ subs' = cleaned
                   /\ effectProvider' = Null
    /\ effectDue' = FALSE
    /\ UNCHANGED <<mounted, documentId>>
    /\ UNCHANGED <<storeVars, partyVars>>

\* the route is left: the latest effect's cleanup runs, the state is dropped
Unmount ==
    /\ mounted
    /\ mounted' = FALSE
    /\ documentId' = NoRoom
    /\ isClient' = FALSE
    /\ isSynced' = FALSE
    /\ ydocState' = Null
    /\ effectDue' = FALSE
    /\ effectProvider' = Null
    /\ subs' = Unsubscribe(subs, effectProvider)
    /\ UNCHANGED <<ydoc, provider, awareness, currentRoom, docs, provs, trace>>
    /\ UNCHANGED <<storeVars, partyVars>>

\* a provider emits "synced" (true); handleSync runs where it is registered.
\* The event of a connection that was destroyed meanwhile may still arrive.
ProviderSynced(p) ==
    /\ p \in DOMAIN provs
    /\ ~provs[p].synced
    /\ provs' = [provs EXCEPT ![p].synced = TRUE, ![p].late = provs[p].destroyed]
    /\ isSynced' = IF p \in subs /\ mounted THEN TRUE ELSE isSynced
    /\ UNCHANGED <<ydoc, provider, awareness, currentRoom, docs, trace, mounted,
                   documentId, isClient, ydocState, effectDue, effectProvider, subs>>
    /\ UNCHANGED <<storeVars, partyVars>>

\* the star chart page, shown instead of DocPage, asks for its own room
StarChartEffect ==
    /\ ~mounted
    /\ CanCall(StarRoom)
    /\ SetModule(getProvider(Module, StarRoom))
    /\ UNCHANGED <<mounted, documentId, isClient, isSynced, ydocState, effectDue,
                   effectProvider, subs>>
    /\ UNCHANGED <<storeVars, partyVars>>

(***************************************************************************)
(* The module's exports called one by one, by any importer, in any order.  *)
(***************************************************************************)
\* the history of a call starts empty
Fresh(s) == [s EXCEPT !.trace = <<>>]

\* a call that constructs a Y.Doc
ConstructsDoc(room) == ydoc = Null \/ (currentRoom # NoRoom /\ currentRoom # room)
CanConstructDoc == Cardinality(DOMAIN docs) < MaxSessions

CallGetYDoc ==
    /\ ydoc = Null => CanConstructDoc
    /\ SetModule(getYDoc(Fresh(Module)))
    /\ UNCHANGED <<mounted, documentId, isClient, isSynced, ydocState, effectDue,
                   effectProvider, subs>>
    /\ UNCHANGED <<storeVars, partyVars>>

CallGetProvider(room) ==
    /\ CanCall(room)
    /\ (Constructs(room) /\ ConstructsDoc(room)) => CanConstructDoc
    /\ SetModule(getProvider(Module, room))
    /\ UNCHANGED <<mounted, documentId, isClient, isSynced, ydocState, effectDue,
                   effectProvider, subs>>
    /\ UNCHANGED <<storeVars, partyVars>>

CallCleanup ==
    /\ SetModule(cleanup(Fresh(Module)))
    /\ UNCHANGED <<mounted, documentId, isClient, isSynced, ydocState, effectDue,
                   effectProvider, subs>>
    /\ UNCHANGED <<storeVars, partyVars>>

ManagerStep ==
    \/ CallGetYDoc
    \/ \E room \in DocRooms \cup {StarRoom} : CallGetProvider(room)
    \/ CallCleanup
    \/ \E p \in 1..MaxSessions : ProviderSynced(p)

\* `isClient && ydoc && isSynced`: the editors are created and rendered
Gate == mounted /\ isClient /\ ydocState # Null /\ isSynced

ClientInit ==
    /\ ydoc = Null
    /\ provider = Null
    /\ awareness = Null
    /\ currentRoom = NoRoom
    /\ docs = [k \in {} |-> [destroyed |-> FALSE]]
    /\ provs = [k \in {} |-> [destroyed |-> FALSE]]
    /\ trace = <<>>
    /\ mounted = FALSE
    /\ documentId = NoRoom
    /\ isClient = FALSE
    /\ isSynced = FALSE
    /\ ydocState = Null
    /\ effectDue = FALSE
    /\ effectProvider = Null
    /\ subs = {}

ClientStep ==
    \/ \E room \in DocRooms : Mount(room)
    \/ \E room \in DocRooms : Navigate(room)
    \/ RunEffect
    \/ Unmount
    \/ \E p \in 1..MaxSessions : ProviderSynced(p)
    \/ StarChartEffect

(***************************************************************************)
(* Specifications.  Spec: the route handlers of concurrent requests,       *)
(* interleaved at their storage requests.  SpecSeq: one request at a time. *)
(* SpecClient: one browser tab's collaboration session.  SpecManager: the  *)
(* collaboration module alone, under any sequence of calls of its exports. *)
(***************************************************************************)
(***************************************************************************)
(* The slug-keyed DocumentsServer (party/documents.ts): storage-list,      *)
(* storage-get, storage-put and storage-delete over records stored under   *)
(* their slug.  Records written before ids were introduced have neither    *)
(* `id` nor `archived`; a read gives such a record an id and writes it     *)
(* back.  An invocation that awaits a storage write is suspended until the *)
(* storage has performed it; other invocations run in between.             *)
(***************************************************************************)
\* requests received in one run
MaxCalls == 3

\* the record the first DocumentsServer wrote: no `id`, no `archived`
LegacyDoc(slug, t) ==
    [slug |-> slug, title |-> "Untitled", content |-> "", createdAt |-> t, updatedAt |-> t]

\* `!doc.id` is false
HasId(doc) == "id" \in DOMAIN doc /\ doc.id # 0

\* doc.archived, undefined (falsy) on a legacy record
IsArchived(doc) == "archived" \in DOMAIN doc /\ doc.archived

\* { ...doc, id }
WithId(doc, id) == [f \in DOMAIN doc \cup {"id"} |-> IF f = "id" THEN id ELSE doc[f]]

\* party.storage.list() yields the entries in the order of their keys
KeyOrder == <<SlugA, SlugB>>
StoredKeys(st) == SelectSeq(KeyOrder, LAMBDA k : k \in DOMAIN st)

\* party.storage.put(key, value) and party.storage.delete(key)
PutKey(st, key, value) ==
    [k \in DOMAIN st \cup {key} |-> IF k = key THEN value ELSE st[k]]
DeleteKey(st, key) == [k \in DOMAIN st \ {key} |-> st[k]]

\* the legacy entries among the first n, in key order
LegacyAmong(st, n) ==
    {i \in 1..n : ~HasId(st[StoredKeys(st)[i]])}

\* the i-th entry as getAllDocuments sees it: a legacy entry with the next
\* generated id (`doc-${now}-${random}`, a fresh one at every generation)
Migrated(st, ids, i) ==
    LET doc == st[StoredKeys(st)[i]] IN
    IF HasId(doc) THEN doc
    ELSE WithId(doc, ids + Cardinality(LegacyAmong(st, i)))

AllMigrated(st, ids) == [i \in 1..Len(StoredKeys(st)) |-> Migrated(st, ids, i)]

\* `updates`: the puts getAllDocuments has pushed, in order
RECURSIVE MigrationPuts(_, _, _)
MigrationPuts(st, ids, i) ==
    IF i > Len(StoredKeys(st)) THEN <<>>
    ELSE (IF HasId(st[StoredKeys(st)[i]]) THEN <<>>
          ELSE <<[key |-> StoredKeys(st)[i], value |-> Migrated(st, ids, i)]>>)
         \o MigrationPuts(st, ids, i + 1)

\* the filter by archived status and the sort of getAllDocuments
ListedDocs(st, ids, showArchived) ==
    SortByUpdatedAt(
        SelectSeq(AllMigrated(st, ids),
                  LAMBDA doc : IF showArchived THEN IsArchived(doc) ELSE ~IsArchived(doc)))

NoCall == [op |-> "idle", pc |-> "idle", key |-> SlugNone, pending |-> <<>>, out |-> <<>>]

NoResult == [op |-> "none", key |-> SlugNone, status |-> 0, docs |-> <<>>, fresh |-> FALSE]

\* `fresh`: the response carries ids this invocation has generated
Result(op, key, status, docSeq) ==
    [op |-> op, key |-> key, status |-> status, docs |-> docSeq, fresh |-> FALSE]

Receives(h) ==
    /\ call[h].pc = "idle"
    /\ calls < MaxCalls
    /\ calls' = calls + 1

\* the ids a response hands out, per slug
Serve(docSeq) ==
    [k \in DOMAIN served |->
        served[k] \cup {docSeq[i].id : i \in {j \in 1..Len(docSeq) : docSeq[j].slug = k}}]

\* (variant) a migration that returns the record and leaves the write out
MigrationWritesNone(puts) == <<>>

\* the storage writes a read awaits: `await this.party.storage.put(slug, doc)`,
\* `await Promise.all(updates)`
MigrationWrites(puts) == puts

\* GET /storage-get/:slug up to the first storage write it awaits
LegacyGet(h, slug) ==
    /\ Receives(h)
    /\ IF slug \notin DOMAIN slugStorage
       THEN /\ result' = Result("get", slug, StatusNotFound, <<>>)
            /\ UNCHANGED <<call, genId, served>>
       ELSE IF HasId(slugStorage[slug])
       THEN /\ result' = Result("get", slug, StatusOk, <<slugStorage[slug]>>)
            /\ served' = Serve(<<slugStorage[slug]>>)
            /\ UNCHANGED <<call, genId>>
       ELSE LET doc == WithId(slugStorage[slug], genId + 1)
                puts == MigrationWrites(<<[key |-> slug, value |-> doc]>>) IN
            /\ genId' = genId + 1
            /\ call' = [call EXCEPT ![h] =
                           [op |-> "get", pc |-> IF puts = <<>> THEN "done" ELSE "puts",
                            key |-> slug, pending |-> puts, out |-> <<doc>>]]
            /\ result' = NoResult
            /\ served' = served
    /\ UNCHANGED <<slugStorage, written>>
    /\ UNCHANGED <<storeVars, clientVars, starVars, geoVars>>

\* GET /storage-list up to the storage writes it awaits
LegacyList(h, showArchived) ==
    /\ Receives(h)
    /\ LET puts == MigrationWrites(MigrationPuts(slugStorage, genId, 1))
           out == ListedDocs(slugStorage, genId, showArchived) IN
       IF MigrationPuts(slugStorage, genId, 1) = <<>>
       THEN /\ result' = Result(ListOp(showArchived), SlugNone, StatusOk, out)
            /\ served' = Serve(out)
            /\ UNCHANGED <<call, genId>>
       ELSE /\ genId' = genId + Len(MigrationPuts(slugStorage, genId, 1))
            /\ call' = [call EXCEPT ![h] =
                           [op |-> ListOp(showArchived),
                            pc |-> IF puts = <<>> THEN "done" ELSE "puts",
                            key |-> SlugNone, pending |-> puts, out |-> out]]
            /\ result' = NoResult
            /\ served' = served
    /\ UNCHANGED <<slugStorage, written>>
    /\ UNCHANGED <<storeVars, clientVars, starVars, geoVars>>

\* the storage performs the next write an invocation awaits
MigrationPut(h) ==
    /\ call[h].pc = "puts"
    /\ slugStorage' = PutKey(slugStorage, Head(call[h].pending).key, Head(call[h].pending).value)
    /\ call' = [call EXCEPT ![h].pending = Tail(@),
                            ![h].pc = IF Len(call[h].pending) = 1 THEN "done" ELSE "puts"]
    /\ result' = NoResult
    /\ UNCHANGED <<genId, calls, served, written>>
    /\ UNCHANGED <<storeVars, clientVars, starVars, geoVars>>

\* the writes have resolved: `return Response.json(doc)`, `Response.json(documents)`
Respond(h) ==
    /\ call[h].pc = "done"
    /\ result' = [Result(call[h].op, call[h].key, StatusOk, call[h].out) EXCEPT !.fresh = TRUE]
    /\ served' = Serve(call[h].out)
    /\ call' = [call EXCEPT ![h] = NoCall]
    /\ UNCHANGED <<slugStorage, genId, calls, written>>
    /\ UNCHANGED <<storeVars, clientVars, starVars, geoVars>>

\* the records the routes of the day put: a new record under its slug
PutValues(key, id) ==
    {[NewDoc(id, key, NoTitle, t) EXCEPT !.archived = archived] :
        t \in {1, MaxTime}, archived \in BOOLEAN}

\* POST /storage-put: party.storage.put(body.key, body.value)
LegacyPut(h, key) ==
    /\ Receives(h)
    /\ \E value \in PutValues(key, genId + 1) :
          slugStorage' = PutKey(slugStorage, key, value)
    /\ genId' = genId + 1
    /\ result' = Result("put", key, StatusOk, <<>>)
    /\ served' = [served EXCEPT ![key] = {}]
    /\ written' = written \cup {key}
    /\ UNCHANGED call
    /\ UNCHANGED <<storeVars, clientVars, starVars, geoVars>>

\* POST /storage-delete/:slug: party.storage.delete(slug)
LegacyDelete(h, slug) ==
    /\ Receives(h)
    /\ slugStorage' = DeleteKey(slugStorage, slug)
    /\ result' = Result("delete", slug, StatusOk, <<>>)
    /\ served' = [served EXCEPT ![slug] = {}]
    /\ written' = written \cup {slug}
    /\ UNCHANGED <<call, genId>>
    /\ UNCHANGED <<storeVars, clientVars, starVars, geoVars>>

\* what the first DocumentsServer left behind, and records put since
LegacySeeds ==
    { [k \in {SlugA} |-> LegacyDoc(SlugA, 1)],
      [k \in {SlugA, SlugB} |-> IF k = SlugA THEN LegacyDoc(SlugA, 1) ELSE LegacyDoc(SlugB, MaxTime)],
      [k \in {SlugA, SlugB} |-> IF k = SlugA THEN LegacyDoc(SlugA, MaxTime)
                                ELSE [NewDoc(1, SlugB, NoTitle, 1) EXCEPT !.archived = TRUE]] }

IdsIn(st) == {st[k].id : k \in {x \in DOMAIN st : HasId(st[x])}}

LegacyStart(seeds) ==
    /\ slugStorage \in seeds
    /\ call = [h \in Handlers |-> NoCall]
    /\ result = NoResult
    /\ genId = Cardinality(IdsIn(slugStorage))
    /\ calls = 0
    /\ served = [k \in {SlugA, SlugB} |-> {}]
    /\ written = {}

LegacyStep(h) ==
    \/ \E slug \in {SlugA, SlugB} : LegacyGet(h, slug)
    \/ \E showArchived \in BOOLEAN : LegacyList(h, showArchived)
    \/ MigrationPut(h)
    \/ Respond(h)
    \/ \E key \in {SlugA, SlugB} : LegacyPut(h, key)
    \/ \E slug \in {SlugA, SlugB} : LegacyDelete(h, slug)

(***************************************************************************)
(* The star chart: the routes of api.star-chart.tsx over StarChartServer   *)
(* (party/star-chart.ts).  Every route starts with a storage-get of the    *)
(* chart, which ages out the exchanges used before today and saves the     *)
(* chart if it removed any.  Requests are handled one at a time; the clock *)
(* is read in days, the unit of usedDate (the YYYY-MM-DD part of           *)
(* toISOString(), whose order as strings is the order of the days).        *)
(***************************************************************************)
\* requests received in one run
MaxStarCalls == 5
\* the last day of a run
MaxClock == 2
\* squares a chart can hold
MaxSquares == 40

\* `squaresExchanged: 20`
ExchangeSize == 20

ChartId == "everett-potty"

NoChart == [id |-> "none"]

\* the chart the loader creates when there is none
NewChart(t) ==
    [id |-> ChartId, totalSquares |-> 0, exchanges |-> <<>>,
     createdAt |-> t, updatedAt |-> t]

RECURSIVE SumExchanged(_)
\* chart.exchanges.reduce((sum, ex) => sum + ex.squaresExchanged, 0)
SumExchanged(exchanges) ==
    IF exchanges = <<>> THEN 0
    ELSE Head(exchanges).squaresExchanged + SumExchanged(Tail(exchanges))

\* StarChartServer.ageOutOldExchanges: the chart it leaves
ageOutOldExchanges(chart, today) ==
    [chart EXCEPT !.exchanges = SelectSeq(@, LAMBDA ex : ex.usedDate >= today)]

\* GET /storage-get/:id - the response, and the storage it leaves
StarStorageGet(st, id, t) ==
    IF id \notin DOMAIN st
    THEN [status |-> StatusNotFound, chart |-> NoChart, storage |-> st]
    ELSE LET aged == ageOutOldExchanges(st[id], t)
             wasModified == Len(aged.exchanges) < Len(st[id].exchanges)
             chart == IF wasModified THEN [aged EXCEPT !.updatedAt = t] ELSE aged
         IN  [status |-> StatusOk, chart |-> chart,
              storage |-> IF wasModified THEN [st EXCEPT ![id] = chart] ELSE st]

\* POST /storage-put: ctx.storage.put(body.value.id, body.value)
StarStoragePut(st, value) ==
    [k \in DOMAIN st \cup {value.id} |-> IF k = value.id THEN value ELSE st[k]]

NoStarResult ==
    [op |-> "none", status |-> 0, before |-> NoChart, fetched |-> NoChart, chart |-> NoChart]

StarResult(op, status, before, fetched, chart) ==
    [op |-> op, status |-> status, before |-> before, fetched |-> fetched, chart |-> chart]

StarReceives ==
    /\ starCalls < MaxStarCalls
    /\ starCalls' = starCalls + 1

\* a day passes
StarTick ==
    /\ clock < MaxClock
    /\ clock' = clock + 1
    /\ starResult' = NoStarResult
    /\ UNCHANGED <<charts, starCalls, starReq>>
    /\ UNCHANGED <<storeVars, clientVars, legacyVars, geoVars>>

\* GET /api/star-chart
StarLoader ==
    /\ StarReceives
    /\ LET r == StarStorageGet(charts, ChartId, clock) IN
       IF r.status = StatusNotFound
       THEN /\ charts' = StarStoragePut(r.storage, NewChart(clock))
            /\ starResult' = StarResult("loader", StatusOk, NoChart, NoChart, NewChart(clock))
       ELSE /\ charts' = r.storage
            /\ starResult' = StarResult("loader", StatusOk, charts[ChartId], r.chart, r.chart)
    /\ UNCHANGED <<clock, starReq>>
    /\ UNCHANGED <<storeVars, clientVars, legacyVars, geoVars>>

\* (variant) an exchange that does not count the active squares
ExchangeRefusedNever(activeSquares) == FALSE

\* `if (activeSquares < 20)`: "Need at least 20 active squares to exchange"
ExchangeRefused(activeSquares) == activeSquares < ExchangeSize

\* what an action makes of the chart it fetched, or the error it answers
StarApply(chart, action, amount, t) ==
    LET totalExchanged == SumExchanged(chart.exchanges)
        activeSquares == chart.totalSquares - totalExchanged IN
    CASE action = "add" ->
            IF amount <= 0 THEN [status |-> StatusBadRequest, chart |-> chart]
            ELSE [status |-> StatusOk,
                  chart |-> [chart EXCEPT !.totalSquares = @ + amount, !.updatedAt = t]]
      [] action = "subtract" ->
            IF activeSquares <= 0 THEN [status |-> StatusBadRequest, chart |-> chart]
            ELSE [status |-> StatusOk,
                  chart |-> [chart EXCEPT
                                !.totalSquares = IF totalExchanged >= @ - 1
                                                 THEN totalExchanged ELSE @ - 1,
                                !.updatedAt = t]]
      [] action = "exchange" ->
            IF ExchangeRefused(activeSquares) THEN [status |-> StatusBadRequest, chart |-> chart]
            ELSE [status |-> StatusOk,
                  chart |-> [chart EXCEPT
                                !.exchanges = Append(@,
                                    [timestamp |-> t, squaresExchanged |-> ExchangeSize,
                                     squareRange |-> <<totalExchanged + 1,
                                                       totalExchanged + ExchangeSize>>,
                                     usedDate |-> t]),
                                !.updatedAt = t]]
      [] OTHER -> [status |-> StatusBadRequest, chart |-> chart]

StarActions == {"add", "subtract", "exchange", "reset"}
Amounts == {0, 1, ExchangeSize}

\* POST /api/star-chart
StarAction(action, amount) ==
    /\ StarReceives
    /\ LET r == StarStorageGet(charts, ChartId, clock) IN
       IF r.status # StatusOk
       THEN /\ charts' = r.storage
            /\ starResult' = StarResult(action, StatusNotFound, NoChart, NoChart, NoChart)
       ELSE LET a == StarApply(r.chart, action, amount, clock) IN
            /\ a.chart.totalSquares <= MaxSquares
            /\ charts' = IF a.status = StatusOk
                         THEN StarStoragePut(r.storage, a.chart) ELSE r.storage
            /\ starResult' = StarResult(action, a.status, charts[ChartId], r.chart,
                                        IF a.status = StatusOk THEN a.chart ELSE NoChart)
    /\ UNCHANGED <<clock, starReq>>
    /\ UNCHANGED <<storeVars, clientVars, legacyVars, geoVars>>

\* The routes step by step, for callers in parallel: the storage-get with
\* what the route makes of the chart, and later the storage-put.
NoStarReq == [op |-> "idle", before |-> NoChart, fetched |-> NoChart, out |-> NoChart]

\* GET /api/star-chart up to the storage-put of a new chart
StarLoaderGet(h) ==
    /\ starReq[h] = NoStarReq
    /\ StarReceives
    /\ LET r == StarStorageGet(charts, ChartId, clock) IN
       /\ charts' = r.storage
       /\ IF r.status = StatusNotFound
          THEN /\ starReq' = [starReq EXCEPT ![h] =
                                 [op |-> "loader", before |-> NoChart, fetched |-> NoChart,
                                  out |-> NewChart(clock)]]
               /\ starResult' = NoStarResult
          ELSE /\ starResult' = StarResult("loader", StatusOk, charts[ChartId], r.chart, r.chart)
               /\ starReq' = starReq
    /\ UNCHANGED clock
    /\ UNCHANGED <<storeVars, clientVars, legacyVars, geoVars>>

\* POST /api/star-chart up to the storage-put of the chart it has changed
StarActionGet(h, action, amount) ==
    /\ starReq[h] = NoStarReq
    /\ StarReceives
    /\ LET r == StarStorageGet(charts, ChartId, clock) IN
       /\ charts' = r.storage
       /\ IF r.status # StatusOk
          THEN /\ starResult' = StarResult(action, StatusNotFound, NoChart, NoChart, NoChart)
               /\ starReq' = starReq
          ELSE LET a == StarApply(r.chart, action, amount, clock) IN
               /\ a.chart.totalSquares <= MaxSquares
               /\ IF a.status = StatusOk
                  THEN /\ starReq' = [starReq EXCEPT ![h] =
                                         [op |-> action, before |-> charts[ChartId],
                                          fetched |-> r.chart, out |-> a.chart]]
                       /\ starResult' = NoStarResult
                  ELSE /\ starResult' = StarResult(action, a.status, charts[ChartId],
                                                   r.chart, NoChart)
                       /\ starReq' = starReq
    /\ UNCHANGED clock
    /\ UNCHANGED <<storeVars, clientVars, legacyVars, geoVars>>

\* the storage-put of a route, and its response
StarSave(h) ==
    /\ starReq[h] # NoStarReq
    /\ charts' = StarStoragePut(charts, starReq[h].out)
    /\ starResult' = StarResult(starReq[h].op, StatusOk, starReq[h].before,
                                starReq[h].fetched, starReq[h].out)
    /\ starReq' = [starReq EXCEPT ![h] = NoStarReq]
    /\ UNCHANGED <<clock, starCalls>>
    /\ UNCHANGED <<storeVars, clientVars, legacyVars, geoVars>>

StarStart ==
    /\ charts = [k \in {} |-> NoChart]
    /\ clock = 0
    /\ starResult = NoStarResult
    /\ starCalls = 0
    /\ starReq = [h \in Handlers |-> NoStarReq]

StarStepOf(h) ==
    \/ StarLoaderGet(h)
    \/ \E action \in StarActions, amount \in Amounts : StarActionGet(h, action, amount)
    \/ StarSave(h)

StarStep ==
    \/ StarTick
    \/ StarLoader
    \/ \E action \in StarActions, amount \in Amounts : StarAction(action, amount)

vars == <<storeVars, clientVars, partyVars>>

(***************************************************************************)
(* The presence server (party/geo.ts): GeoServer keeps, in memory, how     *)
(* many connections are open and who they are.  It hibernates: the object  *)
(* can be evicted with its connections open, and onStart rebuilds the      *)
(* state from the state stored on each connection.                         *)
(***************************************************************************)
\* connections opened in one run
MaxConnections == 3

Names == {"Ann", "Unknown"}
Countries == {"US", "unknown"}

\* `state: State = { total: 0, from: {}, users: [] }`
GeoInitial == [total |-> 0, from |-> [c \in {} |-> 0], users |-> <<>>]

\* this.state.from[from] ?? 0
FromCount(st, from) == IF from \in DOMAIN st.from THEN st.from[from] ELSE 0

\* { ...this.state.from, [from]: n }
WithFrom(st, from, n) ==
    [c \in DOMAIN st.from \cup {from} |-> IF c = from THEN n ELSE st.from[c]]

\* the state onConnect computes
Connected(st, name, from) ==
    [total |-> st.total + 1,
     from |-> WithFrom(st, from, FromCount(st, from) + 1),
     users |-> Append(st.users, [name |-> name, country |-> from])]

\* the state onClose computes for a connection whose state is [from, name]
Closed(st, name, from) ==
    [total |-> st.total - 1,
     from |-> WithFrom(st, from, IF FromCount(st, from) - 1 < 0 THEN 0
                                 ELSE FromCount(st, from) - 1),
     users |-> SelectSeq(st.users, LAMBDA u : ~(u.name = name /\ u.country = from))]

RECURSIVE Rehydrated(_, _)
\* onStart: the initial state with every connection counted in, in the
\* order of getConnections()
Rehydrated(conns, ids) ==
    IF ids = {} THEN GeoInitial
    ELSE LET c == CHOOSE x \in ids : \A y \in ids : x >= y IN
         Connected(Rehydrated(conns, ids \ {c}), conns[c].name, conns[c].from)

\* onConnect: a connection opens
GeoConnect(name, from) ==
    /\ Cardinality(DOMAIN connections) < MaxConnections
    /\ LET c == CHOOSE x \in 1..MaxConnections : x \notin DOMAIN connections IN
       connections' = [k \in DOMAIN connections \cup {c} |->
                          IF k = c THEN [from |-> from, name |-> name]
                          ELSE connections[k]]
    /\ geoState' = Connected(geoState, name, from)
    /\ UNCHANGED <<storeVars, clientVars, legacyVars, starVars>>

\* onClose: a connection closes
GeoClose(c) ==
    /\ c \in DOMAIN connections
    /\ connections' = [k \in DOMAIN connections \ {c} |-> connections[k]]
    /\ geoState' = Closed(geoState, connections[c].name, connections[c].from)
    /\ UNCHANGED <<storeVars, clientVars, legacyVars, starVars>>

\* onError: `await this.onClose(connection)`; the connection is gone
GeoError(c) ==
    /\ c \in DOMAIN connections
    /\ connections' = [k \in DOMAIN connections \ {c} |-> connections[k]]
    /\ geoState' = Closed(geoState, connections[c].name, connections[c].from)
    /\ UNCHANGED <<storeVars, clientVars, legacyVars, starVars>>

\* the object is evicted and started again with its connections open
GeoStart ==
    /\ geoState' = Rehydrated(connections, DOMAIN connections)
    /\ UNCHANGED connections
    /\ UNCHANGED <<storeVars, clientVars, legacyVars, starVars>>

GeoIdle ==
    /\ geoState = GeoInitial
    /\ connections = [c \in {} |-> [from |-> "unknown", name |-> "Unknown"]]

GeoStep ==
    \/ \E name \in Names, from \in Countries : GeoConnect(name, from)
    \/ \E c \in 1..MaxConnections : GeoClose(c)
    \/ \E c \in 1..MaxConnections : GeoError(c)
    \/ GeoStart

\* the party servers at rest
PartyIdle == LegacyStart({[k \in {} |-> NoDoc]}) /\ StarStart /\ GeoIdle

Init == StoreInit /\ ClientInit /\ PartyIdle

Next == \E h \in Handlers : StoreStep(h)

Spec == Init /\ [][Next]_vars

NextSeq == StoreStep(1)

SpecSeq == Init /\ [][NextSeq]_vars

NextClient == ClientStep

SpecClient == Init /\ [][NextClient]_vars

NextManager == ManagerStep

\* one request at a time, over a storage that may refuse any write
NextFault == StoreStep(1) \/ StoreFault(1)

SpecFault == Init /\ [][NextFault]_vars

\* the record store and the client at rest
AppIdle == StoreInit /\ DOMAIN storage = {} /\ ClientInit

\* everything at rest: no record, no client, no party state
InitIdle == AppIdle /\ PartyIdle

\* the slug-keyed DocumentsServer, callers in parallel
InitLegacy == AppIdle /\ LegacyStart(LegacySeeds) /\ StarStart /\ GeoIdle

NextLegacy == \E h \in Handlers : LegacyStep(h)

SpecLegacy == InitLegacy /\ [][NextLegacy]_vars

\* the same, one request at a time
NextLegacySeq == LegacyStep(1)

SpecLegacySeq == InitLegacy /\ [][NextLegacySeq]_vars

\* one request at a time; the server runs an invocation that can run, the
\* storage may take for ever over a write
SpecLegacyLive ==
    InitLegacy /\ [][NextLegacySeq]_vars /\ WF_vars(Respond(1))

\* the star chart
InitStar == AppIdle /\ LegacyStart({[k \in {} |-> NoDoc]}) /\ StarStart /\ GeoIdle

NextStar == StarStep

SpecStar == InitStar /\ [][NextStar]_vars

\* the star chart, callers in parallel
NextStarPar == StarTick \/ \E h \in Handlers : StarStepOf(h)

SpecStarPar == InitStar /\ [][NextStarPar]_vars

\* the presence server
NextGeo == GeoStep

SpecGeo == InitIdle /\ [][NextGeo]_vars

SpecManager == Init /\ [][NextManager]_vars

\* the connection the manager holds emits "synced"
SyncCurrent == provider # Null /\ ProviderSynced(provider)

\* the browser session with rooms entered only while a connection can still
\* be constructed for them
NextClientLive ==
    \/ \E room \in DocRooms : CanCall(room) /\ Mount(room)
    \/ \E room \in DocRooms : CanCall(room) /\ Navigate(room)
    \/ RunEffect
    \/ Unmount
    \/ \E p \in 1..MaxSessions : ProviderSynced(p)
    \/ StarChartEffect

\* React runs a due effect; the connection of the current room gets its
\* initial sync
SpecClientLive ==
    /\ InitIdle
    /\ [][NextClientLive]_vars
    /\ WF_vars(RunEffect)
    /\ WF_vars(SyncCurrent)

(***************************************************************************)
(* Part III: properties of the record store.                               *)
(*                                                                         *)
(* A step in which a handler returns is recognised by reply' (every step   *)
(* of the store sets reply afresh): reply'.op is the operation, reply'.doc *)
(* the record the handler read, reply'.resp the response.                  *)
(***************************************************************************)
Returns(op) == reply'.op = op
Succeeds(op) == reply'.op = op /\ reply'.resp.status = StatusOk
PreconditionFailed(resp) ==
    /\ resp.status = StatusBadRequest
    /\ resp.error = "Document must be archived before it can be deleted"

\* C1: a delete removes a record only if the record is archived; for a record
\* that is not archived it answers PreconditionFailed and the storage keeps
\* every record.  (The record is the one the handler read by the slug.)
DeleteStep ==
    /\ (Returns("delete") /\ reply'.doc # NoDoc /\ ~reply'.doc.archived)
          => /\ PreconditionFailed(reply'.resp)
             /\ storage' = storage
             /\ reply'.doc.id \in DOMAIN storage'
    /\ Succeeds("delete")
          => /\ reply'.doc.archived
             /\ reply'.doc.id \notin DOMAIN storage'
    /\ \A k \in DOMAIN storage \ DOMAIN storage' :
          /\ Succeeds("delete")
          /\ reply'.doc.id = k
          /\ reply'.doc.archived
    /\ \A h \in Handlers :
          (req'[h].op = "delete" /\ req'[h].pc = "del") => req'[h].doc.archived

C1_DeleteOnlyArchived == [][DeleteStep]_vars

\* C1's cases: a refused delete with the record still stored, and a delete
\* that removed an archived record
C1_Witness ==
    /\ reply.op = "delete"
    /\ PreconditionFailed(reply.resp)
    /\ reply.doc.id \in DOMAIN storage
    /\ ~storage[reply.doc.id].archived

C1_WitnessDeleted ==
    /\ reply.op = "delete"
    /\ reply.resp.status = StatusOk
    /\ reply.doc.archived
    /\ reply.doc.id \notin DOMAIN storage

\* C2: no two stored records have the same slug.
C2_SlugsUnique ==
    \A k1, k2 \in DOMAIN storage :
        storage[k1].slug = storage[k2].slug => k1 = k2

\* a rename request (slug -> newSlug) is taken up in this step
RenameIssued(slug, newSlug) ==
    /\ issued' = issued + 1
    /\ \/ Returns("rename") /\ reply'.slug = slug /\ reply'.newSlug = newSlug
       \/ \E h \in Handlers :
            /\ req[h].pc = "idle"
            /\ req'[h].op = "rename"
            /\ req'[h].slug = slug /\ req'[h].newSlug = newSlug

\* the record a request for `slug` addresses is stored, and another record
\* holds `newSlug`
HeldByAnother(st, slug, newSlug) ==
    /\ StorageGetBySlug(st, slug).status = StatusOk
    /\ \E k \in Holders(st, newSlug) : k # StorageGetBySlug(st, slug).doc.id

\* C3: a rename to a (well-formed) slug that another stored record holds,
\* archived or not, answers Conflict and leaves the storage as it was.
RenameConflictStep ==
    \A slug \in ParamSlugs, newSlug \in BodySlugs :
        (/\ RenameIssued(slug, newSlug)
         /\ SlugRegexTest(newSlug)
         /\ HeldByAnother(storage, slug, newSlug))
        => /\ Returns("rename")
           /\ reply'.resp.status = StatusConflict
           /\ storage' = storage

C3_RenameConflict == [][RenameConflictStep]_vars

\* C4: a successful rename rewrites the record under the key it has: the set
\* of keys is the same before and after, no other entry changes, and of the
\* renamed record only slug (and updatedAt) change - id, title, content,
\* createdAt and archived stay.  Requests one at a time.
RenameInPlaceStep ==
    Succeeds("rename") =>
        LET id == reply'.resp.doc.id IN
        /\ DOMAIN storage' = DOMAIN storage
        /\ id \in DOMAIN storage
        /\ \A k \in DOMAIN storage \ {id} : storage'[k] = storage[k]
        /\ storage'[id] = reply'.resp.doc
        /\ storage'[id].slug = reply'.newSlug
        /\ storage'[id].id = storage[id].id
        /\ storage'[id].title = storage[id].title
        /\ storage'[id].content = storage[id].content
        /\ storage'[id].createdAt = storage[id].createdAt
        /\ storage'[id].archived = storage[id].archived

Mutators == {"update", "rename", "archive", "restore"}

\* C5: update, rename, archive and restore leave the record its id: the value
\* each of them returns and stores has the id of the record it read, no stored
\* record's id ever changes, and every record is stored with the id it is kept
\* under.
IdKeptStep ==
    /\ \A op \in Mutators :
          Succeeds(op) =>
             /\ reply'.resp.doc.id = reply'.doc.id
             /\ reply'.doc.id \in DOMAIN storage'
             /\ storage'[reply'.doc.id].id = reply'.doc.id
    /\ \A k \in DOMAIN storage \cap DOMAIN storage' : storage'[k].id = storage[k].id
    /\ \A k \in DOMAIN storage' : storage'[k].id = k

C5_IdImmutable == [][IdKeptStep]_vars

\* C5's case: an update whose payload carried an id (and createdAt) returned,
\* the payload's createdAt applied, the id the record's own
C5_Witness ==
    /\ reply.op = "update"
    /\ reply.resp.status = StatusOk
    /\ reply.resp.doc.createdAt = 0
    /\ reply.resp.doc.id = reply.doc.id
    /\ storage[reply.doc.id] = reply.resp.doc

\* C6: after a successful rename from s to t (s # t), and until the next
\* write, a read by s answers NotFound and a read by t answers the renamed
\* record: the id it had, slug t.  Requests one at a time.
C6_RenameThenGet ==
    (reply.op = "get" /\ lastRename # NoRename) =>
        /\ reply.slug = lastRename.from => reply.resp.status = StatusNotFound
        /\ reply.slug = lastRename.to =>
              /\ reply.resp.status = StatusOk
              /\ reply.resp.doc.id = lastRename.id
              /\ reply.resp.doc.slug = lastRename.to

\* C7: a rename to the slug the record has returns the stored record as it is
\* and writes nothing (so updatedAt stays); it never goes on to the write.
RenameSameSlugStep ==
    /\ (Returns("rename") /\ reply'.newSlug = reply'.slug
          /\ StorageGetBySlug(storage, reply'.slug).status = StatusOk)
          => /\ reply'.resp.status = StatusOk
             /\ reply'.resp.doc = StorageGetBySlug(storage, reply'.slug).doc
             /\ storage' = storage
             /\ now' = now
    /\ \A h \in Handlers :
          req'[h].op = "rename" => req'[h].newSlug # req'[h].slug

C7_RenameSameSlugNoop == [][RenameSameSlugStep]_vars

\* C7's case: a rename to the record's own slug has returned the record
C7_Witness ==
    /\ reply.op = "rename"
    /\ reply.newSlug = reply.slug
    /\ reply.resp.status = StatusOk
    /\ reply.resp.doc.slug = reply.slug
    /\ storage[reply.resp.doc.id] = reply.resp.doc

(***************************************************************************)
(* Part IV: properties of the collaboration session.                       *)
(***************************************************************************)
\* provider p was destroyed before it synced, and emits "synced" in this step
LateSynced(p) == provs[p].destroyed /\ ~provs[p].synced /\ provs'[p].synced

\* C8: once another room has been requested, the replaced connection's synced
\* event changes nothing in the page; the synced flag rises only for the
\* manager's live connection, with the page holding that connection's
\* document; and the document of an open gate is never a destroyed one.
SyncedStep ==
    /\ \A p \in DOMAIN provs :
          LateSynced(p) => /\ isSynced' = isSynced
                           /\ ydocState' = ydocState
    /\ (isSynced' /\ ~isSynced)
          => /\ provider' # Null
             /\ provs'[provider'].synced
             /\ ~provs'[provider'].destroyed
             /\ provs'[provider'].doc = ydocState'
    /\ Gate' => ~docs'[ydocState'].destroyed

C8_StaleSyncIgnored == [][SyncedStep]_vars

\* C8's case: A was requested, B was requested before A synced, A's synced
\* event has arrived since, and the page still waits for B
C8_Witness ==
    /\ mounted /\ ~effectDue /\ ~isSynced
    /\ provider # Null /\ ~provs[provider].synced
    /\ \E p \in DOMAIN provs :
          /\ provs[p].late
          /\ provs[p].room # currentRoom
          /\ provs[p].doc # ydocState

\* C9: whenever the render gate is open, the page's handle is the manager's
\* live document, the manager's current room is the page's documentId, and
\* that room's connection has signalled synced.
C9_GateCurrent ==
    Gate => /\ ydocState = ydoc
            /\ currentRoom = documentId
            /\ provider # Null
            /\ provs[provider].synced

\* the latest getProvider call found a session of another room
SwitchedRoom ==
    /\ Len(trace) > 0
    /\ trace[1].ev = "getProvider"
    /\ trace[1].h # Null
    /\ provs[trace[1].h].room # trace[1].room

Events(tr) == [i \in 1..Len(tr) |-> tr[i].ev]

\* C10: a getProvider call for a room other than the current session's first
\* destroys the old connection, then destroys the old document, then clears
\* the room marker, and only then constructs the new document and the new
\* connection (for the requested room, on the new document).
C10_TeardownBeforeConstruct ==
    SwitchedRoom =>
        /\ Events(trace) = <<"getProvider", "provider.destroy", "ydoc.destroy",
                             "currentRoom = null", "new Y.Doc",
                             "new YPartyKitProvider">>
        /\ trace[2].h = trace[1].h
        /\ trace[3].h = provs[trace[1].h].doc
        /\ trace[5].h # trace[3].h
        /\ trace[6].h # trace[2].h
        /\ provs[trace[6].h].room = trace[1].room
        /\ provs[trace[6].h].doc = trace[5].h
        /\ provs[trace[2].h].destroyed /\ docs[trace[3].h].destroyed

\* C10's case: a call for another room has torn down a session and built one
C10_Witness ==
    /\ SwitchedRoom
    /\ Len(trace) = 6
    /\ provider = trace[6].h
    /\ currentRoom = trace[1].room

LiveProviders == {p \in DOMAIN provs : ~provs[p].destroyed}
LiveDocs == {d \in DOMAIN docs : ~docs[d].destroyed}

\* C11: after any sequence of getYDoc, getProvider and cleanup calls at most
\* one provider and at most one Y.Doc are not destroyed, they are the ones
\* the module refers to, and a provider is bound to the live Y.Doc and to the
\* room recorded as current.
C11_OneLiveSession ==
    /\ Cardinality(LiveProviders) <= 1
    /\ Cardinality(LiveDocs) <= 1
    /\ LiveProviders = IF provider = Null THEN {} ELSE {provider}
    /\ LiveDocs = IF ydoc = Null THEN {} ELSE {ydoc}
    /\ provider # Null =>
          /\ ydoc # Null
          /\ provs[provider].doc = ydoc
          /\ provs[provider].room = currentRoom
    /\ provider = Null => currentRoom = NoRoom
    /\ awareness = ydoc

\* C11's case: sessions have been replaced and cleaned up, and one is live
C11_Witness ==
    /\ provider # Null
    /\ Cardinality(DOMAIN provs \ LiveProviders) >= 2
    /\ Cardinality(DOMAIN docs \ LiveDocs) >= 2

\* the latest call was getProvider for the room of the session it found
SameRoomCall ==
    /\ Len(trace) > 0
    /\ trace[1].ev = "getProvider"
    /\ trace[1].h # Null
    /\ provs[trace[1].h].room = trace[1].room

\* C12: getProvider for the room of the live session returns the provider it
\* found, leaves the module's Y.Doc the one that provider is bound to, and
\* neither destroys nor constructs anything.
C12_SameRoomSameSession ==
    SameRoomCall =>
        /\ trace = <<trace[1]>>
        /\ provider = trace[1].h
        /\ ~provs[provider].destroyed
        /\ ydoc = provs[provider].doc
        /\ ~docs[ydoc].destroyed
        /\ currentRoom = trace[1].room

\* C12's case: a repeated call for the live room, after that room has synced
C12_Witness ==
    /\ SameRoomCall
    /\ provider = trace[1].h
    /\ provs[provider].synced
    /\ Cardinality(DOMAIN provs) >= 2

\* the [documentId] effect of the page runs in this step
EffectStep == mounted /\ effectDue /\ mounted' /\ ~effectDue'

\* C13: the step in which the page requests a room other than the manager's
\* current one leaves isSynced false and the page without any earlier
\* document: it holds the manager's new Y.Doc, and its handler is registered
\* on the new provider, which has not synced.
NewRoomStep ==
    (EffectStep /\ currentRoom # documentId) =>
        /\ ~isSynced'
        /\ ~Gate'
        /\ ydocState' \notin DOMAIN docs
        /\ ydocState' = ydoc'
        /\ currentRoom' = documentId
        /\ provider' \notin DOMAIN provs
        /\ ~provs'[provider'].synced
        /\ provider' \in subs'

C13_ResetOnRequest == [][NewRoomStep]_vars

\* C13's case: the page has requested another room than the one of a session
\* that had synced, and waits
C13_Witness ==
    /\ mounted /\ ~effectDue /\ isClient
    /\ SwitchedRoom
    /\ provs[trace[1].h].synced /\ ~provs[trace[1].h].late
    /\ provs[trace[1].h].room \in DocRooms
    /\ ~isSynced
    /\ ydocState = ydoc

\* C14: an effect that finds the session of its room live and synced sets
\* isSynced in that same step: the gate is open without a further event.
AlreadySyncedStep ==
    (/\ EffectStep
     /\ provider # Null
     /\ currentRoom = documentId
     /\ provs[provider].synced)
    => /\ isSynced'
       /\ ydocState' = ydoc
       /\ provider' = provider
       /\ provs' = provs
       /\ Gate'

C14_SyncedAtSubscription == [][AlreadySyncedStep]_vars

\* C14's case: the effect found its room's session synced; no handler is
\* registered and the gate is open
C14_Witness ==
    /\ Gate /\ ~effectDue
    /\ SameRoomCall
    /\ effectProvider = provider
    /\ subs = {}

Flaggers == {"archive", "restore"}

\* C15: archive (restore) of a stored record succeeds whatever the flag the
\* record has - also when it is archived (active) already - and leaves
\* archived true (false); nothing else of the record but updatedAt changes.
\* Requests one at a time.
FlagStep ==
    \A op \in Flaggers :
        /\ (Returns(op) /\ reply'.doc # NoDoc) =>
              LET id == reply'.doc.id IN
              /\ reply'.resp.status = StatusOk
              /\ DOMAIN storage' = DOMAIN storage
              /\ storage'[id].archived = (op = "archive")
              /\ reply'.resp.doc = storage'[id]
              /\ [storage'[id] EXCEPT !.archived = FALSE, !.updatedAt = 0]
                    = [storage[id] EXCEPT !.archived = FALSE, !.updatedAt = 0]
              /\ \A k \in DOMAIN storage \ {id} : storage'[k] = storage[k]
        /\ (Returns(op) /\ reply'.resp.status # StatusOk) =>
              Holders(storage, reply'.slug) = {}

C15_FlagIdempotent == [][FlagStep]_vars

\* C15's case: an archive of a record that was archived already has succeeded
C15_Witness ==
    /\ reply.op = "archive"
    /\ reply.doc # NoDoc
    /\ reply.doc.archived
    /\ reply.resp.status = StatusOk
    /\ storage[reply.doc.id].archived

\* C16: after a create of (slug, title), and until the next write, a read by
\* that slug answers a record with the id, slug and title that create
\* returned, content "" and archived false.  Requests one at a time.
C16_CreateThenGet ==
    (reply.op = "get" /\ lastCreate # NoDoc /\ reply.slug = lastCreate.slug) =>
        /\ reply.resp.status = StatusOk
        /\ reply.resp.doc.id = lastCreate.id
        /\ reply.resp.doc.slug = lastCreate.slug
        /\ reply.resp.doc.title = lastCreate.title
        /\ reply.resp.doc.content = ""
        /\ ~reply.resp.doc.archived

\* a create request for `slug` is taken up in this step
CreateIssued(slug) ==
    /\ issued' = issued + 1
    /\ \/ Returns("create") /\ reply'.slug = slug
       \/ \E h \in Handlers :
            /\ req[h].pc = "idle"
            /\ req'[h].op = "create"
            /\ req'[h].slug = slug

\* C17: a create of a (well-formed) slug that a stored record holds, archived
\* or not, answers Conflict and writes nothing.
CreateConflictStep ==
    \A slug \in BodySlugs :
        (/\ CreateIssued(slug)
         /\ SlugRegexTest(slug)
         /\ Holders(storage, slug) # {})
        => /\ Returns("create")
           /\ reply'.resp.status = StatusConflict
           /\ storage' = storage

C17_CreateConflict == [][CreateConflictStep]_vars

\* C18: an update leaves the archived flag and createdAt of the record as
\* they were, whatever the payload carries.  Requests one at a time.
UpdateFrameStep ==
    Succeeds("update") =>
        LET id == reply'.doc.id IN
        /\ storage'[id].archived = storage[id].archived
        /\ storage'[id].createdAt = storage[id].createdAt

C18_UpdateFrame == [][UpdateFrameStep]_vars

\* C19: an update leaves the id and the slug of the record as they were, also
\* when the payload carries an id or a slug; the record stays under its key
\* and no entry is added.  Requests one at a time.
UpdateKeepsIdSlugStep ==
    Succeeds("update") =>
        LET id == reply'.doc.id IN
        /\ id \in DOMAIN storage
        /\ DOMAIN storage' = DOMAIN storage
        /\ storage'[id].id = storage[id].id
        /\ storage'[id].slug = storage[id].slug
        /\ reply'.resp.doc = storage'[id]
        /\ \A k \in DOMAIN storage \ {id} : storage'[k] = storage[k]

C19_UpdateKeepsIdSlug == [][UpdateKeepsIdSlugStep]_vars

\* C19's case: an update whose payload carried another id and another slug
\* (and a flag, which it applied) has returned; the record has its slug
C19_Witness ==
    /\ reply.op = "update"
    /\ reply.resp.status = StatusOk
    /\ reply.resp.doc.archived # reply.doc.archived
    /\ reply.doc.slug = SlugA
    /\ storage[reply.doc.id].slug = SlugA
    /\ DOMAIN storage = {reply.doc.id}

\* C20: no write lowers the updatedAt stored for a record.
UpdatedAtStep ==
    \A k \in DOMAIN storage \cap DOMAIN storage' :
        storage'[k].updatedAt >= storage[k].updatedAt

C20_UpdatedAtMonotonic == [][UpdatedAtStep]_vars

\* every request issued so far was an update that has been written
OnlyUpdatesDone ==
    /\ \A h \in Handlers : req[h].pc = "idle"
    /\ Len(updateLog) = issued

\* C21: once two (or more) updates of a record have completed, concurrent or
\* not, the record stored carries the largest updatedAt among them.
C21_LastWriteWins ==
    (OnlyUpdatesDone /\ Len(updateLog) >= 2) =>
        \A i \in 1..Len(updateLog) :
            storage[updateLog[i].id].updatedAt >= updateLog[i].updatedAt

Writers == {"create", "update", "rename", "archive", "restore"}

\* C22: no operation answers success for a write the storage did not accept:
\* after a successful create, update, rename, archive or restore the record
\* returned is the record stored, and after a successful delete the record
\* is gone.  Requests one at a time, the storage refusing writes at will.
WriteReportedStep ==
    /\ \A op \in Writers :
          Succeeds(op) =>
             /\ reply'.resp.doc.id \in DOMAIN storage'
             /\ storage'[reply'.resp.doc.id] = reply'.resp.doc
    /\ Succeeds("delete") => reply'.doc.id \notin DOMAIN storage'

C22_FailureReported == [][WriteReportedStep]_vars

Addressers == {"update", "rename", "archive", "restore", "delete"}

\* C23: update, rename, archive, restore and delete of a slug that no stored
\* record holds answer NotFound and leave the storage as it was - for a
\* rename whatever the (well-formed) new slug, the requested slug included.
\* Requests one at a time.
NotFoundStep ==
    \A op \in Addressers :
        (/\ Returns(op)
         /\ Holders(storage, reply'.slug) = {}
         /\ op = "rename" => SlugRegexTest(reply'.newSlug))
        => /\ reply'.resp.status = StatusNotFound
           /\ storage' = storage

C23_NotFound == [][NotFoundStep]_vars

\* letters, digits, dot, dash and underscore, as far as they occur
SlugAlphabet == {"a", "b", ".", "-", "_"}

\* the slug is empty or has a character outside the alphabet
Malformed(slug) == Len(slug) = 0 \/ \E i \in 1..Len(slug) : slug[i] \notin SlugAlphabet

ValidationError(resp) == resp.status = StatusBadRequest

\* C24: a create with a malformed slug and a rename to a malformed slug answer
\* ValidationError in the step they are taken up, and the storage stays as it
\* was; neither goes on to a storage request.
ValidationStep ==
    /\ \A slug \in BodySlugs :
          (CreateIssued(slug) /\ Malformed(slug))
          => /\ Returns("create")
             /\ ValidationError(reply'.resp)
             /\ storage' = storage
    /\ \A slug \in ParamSlugs, newSlug \in BodySlugs :
          (RenameIssued(slug, newSlug) /\ Malformed(newSlug))
          => /\ Returns("rename")
             /\ ValidationError(reply'.resp)
             /\ storage' = storage

C24_Validation == [][ValidationStep]_vars

\* C24's case: a create whose slug has a "/" was refused
C24_Witness ==
    /\ reply.op = "create"
    /\ reply.slug = SlugBad
    /\ ValidationError(reply.resp)


\* C25: a create called without a slug succeeds: it answers a record with a
\* generated (non-empty, well-formed) slug, archived false, and an id under
\* which that record is now stored.
C25_CreateWithoutSlug ==
    (reply.op = "create" /\ reply.slug = SlugNone)
    => /\ reply.resp.status = StatusOk
       /\ ~Malformed(reply.resp.doc.slug)
       /\ ~reply.resp.doc.archived
       /\ reply.resp.doc.id \in DOMAIN storage


ListOps == {"list", "list-archived"}

\* the records of a sequence, each once
Once(docSeq) == \A i, j \in 1..Len(docSeq) : docSeq[i] = docSeq[j] => i = j

\* C26: list(includeArchived = false) answers every stored record that is not
\* archived and no archived one, list(includeArchived = true) the stored
\* records that are archived, each once and ordered by updatedAt descending.
ListStep ==
    \A op \in ListOps :
        Returns(op) =>
            LET out == reply'.resp.docs IN
            /\ {out[i] : i \in 1..Len(out)}
                  = {storage[k] : k \in {x \in DOMAIN storage :
                                            storage[x].archived = (op = "list-archived")}}
            /\ Once(out)
            /\ \A i, j \in 1..Len(out) : i < j => out[i].updatedAt >= out[j].updatedAt

C26_List == [][ListStep]_vars

\* C26's case: a listing of two records, the later-updated one first
C26_Witness ==
    /\ reply.op \in ListOps
    /\ Len(reply.resp.docs) = 2
    /\ reply.resp.docs[1].updatedAt > reply.resp.docs[2].updatedAt


(***************************************************************************)
(* Properties of the slug-keyed DocumentsServer.                           *)
(***************************************************************************)
ReadReturns == result'.op = "get" /\ result'.status = StatusOk

\* C27: a read answers a record with an id, that record is the one stored
\* under the slug when the read returns, and no read of the slug since its
\* last put has answered another id: a legacy record gets its id once, and a
\* second read answers the same id.  Requests one at a time.
MigratingReadStep ==
    ReadReturns =>
        LET doc == result'.docs[1]
            key == result'.key IN
        /\ HasId(doc)
        /\ key \in DOMAIN slugStorage'
        /\ slugStorage'[key] = doc
        /\ served'[key] = {doc.id}

AllReturned == \A h \in Handlers : call[h].pc = "idle"

\* C28: concurrent migrating reads of a legacy record do not diverge: as
\* long as no put or delete has touched the slug, the reads of the slug all
\* answer one id, and once every read has returned that id is the one
\* stored.
C28_NoDivergence ==
    \A k \in DOMAIN slugStorage \ written :
        /\ Cardinality(served[k]) <= 1
        /\ (AllReturned /\ served[k] # {}) => served[k] = {slugStorage[k].id}

\* C29: the migration write does not delay the read: a read that has
\* migrated a record returns, whether or not the storage ever completes the
\* write.
C29_ReadNotDelayed == (call[1].pc = "puts") ~> (call[1].pc = "idle")


(***************************************************************************)
(* Properties of the star chart.                                           *)
(***************************************************************************)
\* the exchanges of a chart that were used before today
UsedBefore(chart, today) == SelectSeq(chart.exchanges, LAMBDA ex : ex.usedDate < today)

\* C30: when the fetch of a chart ages exchanges out, the chart fetched has
\* none of them left, its totalSquares is the stored totalSquares less the
\* squaresExchanged of the removed exchanges, and (the request being a plain
\* fetch) that chart is the one saved.
AgingStep ==
    (starResult'.before # NoChart /\ UsedBefore(starResult'.before, clock) # <<>>)
    => /\ UsedBefore(starResult'.fetched, clock) = <<>>
       /\ starResult'.fetched.totalSquares
             = starResult'.before.totalSquares
                  - SumExchanged(UsedBefore(starResult'.before, clock))
       /\ starResult'.op = "loader" => charts'[ChartId] = starResult'.fetched

C30_AgingReducesTotal == [][AgingStep]_vars

\* C31: a delete never removes a record whose stored archived flag is false:
\* every record that leaves the storage is archived in the storage at the
\* moment the storage-delete executes, whatever restore has run meanwhile.
RemovedArchivedStep ==
    \A k \in DOMAIN storage \ DOMAIN storage' : storage[k].archived

C31_DeleteVersusRestore == [][RemovedArchivedStep]_vars

\* C32: once a delete has removed a record, no entry with its id exists
\* again: an entry appears in the storage only when a create puts the
\* record with the id it has just generated, never by the put of an update,
\* rename, archive or restore that was in flight when the delete ran.  (Ids
\* are never issued twice, so an entry that appears otherwise has the id of
\* a record a delete had removed.)
NoResurrectionStep ==
    \A k \in DOMAIN storage' \ DOMAIN storage :
        /\ Returns("create")
        /\ reply'.resp.doc.id = k
        /\ \A h \in Handlers : req[h].out.id = k => req[h].op = "create"

C32_DeletedStaysDeleted == [][NoResurrectionStep]_vars

\* C33: an archived record stays archived through an update: the step in
\* which an update's put executes never turns a stored archived flag from
\* true to false, even when the update read the record before the archive
\* that set the flag had run.  (The update is the first one written, so the
\* flag it meets was set by an archive.)
UpdateKeepsArchivedStep ==
    (Returns("update") /\ updateLog = <<>>) =>
        \A k \in DOMAIN storage \cap DOMAIN storage' :
            storage[k].archived => storage'[k].archived

C33_ArchiveVersusUpdate == [][UpdateKeepsArchivedStep]_vars

Rewriters == {"update", "archive", "restore"}

\* C34: a renamed record keeps its new slug through an update, an archive
\* or a restore: the step in which the put of one of them executes changes
\* the stored slug of no record, even when the request read the record
\* before the rename had run.
KeepsSlugStep ==
    (\E op \in Rewriters : Returns(op)) =>
        \A k \in DOMAIN storage \cap DOMAIN storage' :
            storage'[k].slug = storage[k].slug

C34_RenameVersusWrites == [][KeepsSlugStep]_vars

\* the page shows the editors of room R: its effect has run, the gate is
\* open, and the handle it holds is the live document of R's connection
Rendered(R) ==
    /\ Gate
    /\ ~effectDue
    /\ documentId = R
    /\ currentRoom = R
    /\ effectProvider = provider
    /\ ydocState = ydoc
    /\ provs[provider].synced

\* C35: after the page has asked for the session of room R, and given that
\* R's connection emits synced, the page sets isSynced and shows the editors
\* of R, unless it is taken to another room or left first; no synced edge
\* falls between the read of provider.synced and the subscription.
C35_EventuallyRendered ==
    \A R \in DocRooms :
        (mounted /\ documentId = R) ~> (Rendered(R) \/ ~mounted \/ documentId # R)

\* C35's case: the effect subscribed to a connection not yet synced, the
\* event came, and the editors are shown
C35_Witness ==
    \E R \in DocRooms :
        /\ Rendered(R)
        /\ effectProvider \in subs

\* C36: once the effect has run for the page's room, a document reference
\* the page holds is the manager's current document, it is not destroyed,
\* and it is the document the connection of the page's room is bound to.
C36_HandleLive ==
    (mounted /\ ~effectDue /\ ydocState # Null)
    => /\ ydocState = ydoc
       /\ ~docs[ydocState].destroyed
       /\ provider # Null
       /\ provs[provider].doc = ydocState
       /\ provs[provider].room = documentId

\* C36's case: the page has changed rooms, the previous room's document is
\* destroyed, and the page holds another one
C36_Witness ==
    /\ mounted /\ ~effectDue /\ ydocState # Null
    /\ \E d \in DOMAIN docs : d # ydocState /\ docs[d].destroyed
    /\ \E p \in DOMAIN provs : provs[p].destroyed /\ provs[p].room \in DocRooms \ {documentId}

\* C37: every entry of the id-keyed storage is stored under the id of its
\* value, so the record storage-get-by-slug finds is the entry that a get
\* or a delete by that record's id addresses.
C37_KeyIsId ==
    /\ \A k \in DOMAIN storage : storage[k].id = k
    /\ \A slug \in ParamSlugs :
          LET r == StorageGetBySlug(storage, slug) IN
          r.status = StatusOk =>
              /\ r.doc.id \in DOMAIN storage
              /\ storage[r.doc.id] = r.doc
              /\ r.doc.id \notin DOMAIN StorageDelete(storage, r.doc.id)

\* C37's case: an update has put a record back into a storage of two, and
\* the entry under the id answered is the record answered
C37_Witness ==
    /\ Cardinality(DOMAIN storage) = 2
    /\ reply.op = "update"
    /\ reply.resp.status = StatusOk
    /\ storage[reply.resp.doc.id] = reply.resp.doc

\* C38: the active squares of a stored chart are never negative: its
\* totalSquares is at least the sum of squaresExchanged over its exchanges,
\* after any interleaving of add, subtract, exchange and the aging on fetch.
C38_ActiveNonNegative ==
    \A id \in DOMAIN charts :
        charts[id].totalSquares >= SumExchanged(charts[id].exchanges)

\* C38's case: an exchange and a subtract ran in parallel on a chart whose
\* squares are all exchanged
C38_Witness ==
    /\ ChartId \in DOMAIN charts
    /\ charts[ChartId].exchanges # <<>>
    /\ charts[ChartId].totalSquares = SumExchanged(charts[ChartId].exchanges)
    /\ \E h \in Handlers : starReq[h].op = "subtract"
    /\ starResult.op = "exchange" /\ starResult.status = StatusOk

(***************************************************************************)
(* Properties of the presence server.                                      *)
(***************************************************************************)
\* C39: after any sequence of opens, closes and errors (and restarts),
\* state.total is the number of entries of state.users, it is the number of
\* open connections, and it is not negative.
C39_PresenceCount ==
    /\ geoState.total = Len(geoState.users)
    /\ geoState.total = Cardinality(DOMAIN connections)
    /\ geoState.total >= 0

=============================================================================
